---------------------------- MODULE Spec2Model ----------------------------
(***************************************************************************)
(* Model of app.py of resume-roaster: the segmenter parse_resume_text, the *)
(* renderer create_resume_pdf and the Generate button handler.             *)
(*                                                                         *)
(* A Python str is a sequence of one-character strings, so that strip,     *)
(* lower, split, join, replace and the `in` substring test are computed    *)
(* character by character, as the code computes them.                      *)
(***************************************************************************)
EXTENDS Naturals, Sequences, FiniteSets

(***************************************************************************)
(* Bounds of the model.                                                    *)
(***************************************************************************)
\* the largest number of lines a pasted text has after its first line
MaxBodyLines == 3
\* the largest number of entries of a sequence field of a document handed
\* straight to the renderer
MaxItems == 2

(***************************************************************************)
(* Characters and the str methods the code uses.                           *)
(***************************************************************************)
\* the characters str.strip() removes that the inputs can hold
Whitespace == {" ", "\t", "\n", "\r"}

UpperChars ==
  <<"A", "B", "C", "D", "E", "F", "G", "H", "I", "J", "K", "L", "M",
    "N", "O", "P", "Q", "R", "S", "T", "U", "V", "W", "X", "Y", "Z">>

LowerChars ==
  <<"a", "b", "c", "d", "e", "f", "g", "h", "i", "j", "k", "l", "m",
    "n", "o", "p", "q", "r", "s", "t", "u", "v", "w", "x", "y", "z">>

\* the character U+2022, which a TLA+ string cannot hold, as one character
Bullet == "U+2022"

Digits == {"0", "1", "2", "3", "4", "5", "6", "7", "8", "9"}

\* c.isupper() of one character
IsUpper(c) == \E k \in 1..Len(UpperChars) : UpperChars[k] = c

\* c.lower() of one character
LowerChar(c) ==
  LET upper == {k \in 1..Len(UpperChars) : UpperChars[k] = c}
  IN  IF upper = {} THEN c ELSE LowerChars[CHOOSE k \in upper : TRUE]

\* s.lower()
Lower(s) == [k \in 1..Len(s) |-> LowerChar(s[k])]

\* s.strip(): s without its leading and trailing whitespace
Strip(s) ==
  LET keep == {k \in 1..Len(s) : s[k] \notin Whitespace}
  IN  IF keep = {}
        THEN <<>>
        ELSE SubSeq(s, CHOOSE a \in keep : \A b \in keep : a <= b,
                       CHOOSE a \in keep : \A b \in keep : a >= b)

\* s.strip(chars): s without its leading and trailing characters of chars
StripChars(s, chars) ==
  LET keep == {k \in 1..Len(s) : s[k] \notin chars}
  IN  IF keep = {}
        THEN <<>>
        ELSE SubSeq(s, CHOOSE a \in keep : \A b \in keep : a <= b,
                       CHOOSE a \in keep : \A b \in keep : a >= b)

\* kw in s: kw occurs in s as a substring
Contains(s, kw) ==
  \E k \in 0..Len(s) :
     /\ k + Len(kw) <= Len(s)
     /\ \A j \in 1..Len(kw) : s[k + j] = kw[j]

\* s.split(sep) for a one-character separator: the pieces of s between its
\* occurrences of sep (one piece more than there are occurrences)
Split(s, sep) ==
  LET cuts == {k \in 1..Len(s) : s[k] = sep} \cup {0, Len(s) + 1}
      Cut(n) == CHOOSE c \in cuts : Cardinality({d \in cuts : d < c}) = n
  IN  [n \in 1..(Cardinality(cuts) - 1) |-> SubSeq(s, Cut(n - 1) + 1, Cut(n) - 1)]

RECURSIVE Join(_, _)
\* sep.join(parts)
Join(sep, parts) ==
  IF parts = <<>> THEN <<>>
  ELSE IF Len(parts) = 1 THEN parts[1]
  ELSE parts[1] \o sep \o Join(sep, Tail(parts))

RECURSIVE Replace(_, _, _)
\* s.replace(c, by) for a one-character c
Replace(s, c, by) ==
  IF s = <<>> THEN <<>>
  ELSE (IF Head(s) = c THEN by ELSE <<Head(s)>>) \o Replace(Tail(s), c, by)

NewLine == <<"\n">>

(***************************************************************************)
(* The keyword lists of parse_resume_text, in the order of its if/elif     *)
(* chain.                                                                  *)
(***************************************************************************)
ContactKeywords ==
  { <<"e", "m", "a", "i", "l">>,
    <<"p", "h", "o", "n", "e">>,
    <<"l", "i", "n", "k", "e", "d", "i", "n">>,
    <<"g", "i", "t", "h", "u", "b">>,
    <<"@">> }

SummaryKeywords ==
  { <<"s", "u", "m", "m", "a", "r", "y">>,
    <<"o", "b", "j", "e", "c", "t", "i", "v", "e">>,
    <<"a", "b", "o", "u", "t">> }

ExperienceKeywords ==
  { <<"e", "x", "p", "e", "r", "i", "e", "n", "c", "e">>,
    <<"w", "o", "r", "k", " ", "h", "i", "s", "t", "o", "r", "y">>,
    <<"e", "m", "p", "l", "o", "y", "m", "e", "n", "t">> }

EducationKeywords ==
  { <<"e", "d", "u", "c", "a", "t", "i", "o", "n">>,
    <<"a", "c", "a", "d", "e", "m", "i", "c">> }

SkillsKeywords ==
  { <<"s", "k", "i", "l", "l", "s">>,
    <<"t", "e", "c", "h", "n", "i", "c", "a", "l", " ", "s", "k", "i", "l", "l", "s">>,
    <<"c", "o", "m", "p", "e", "t", "e", "n", "c", "i", "e", "s">> }

ProjectsKeywords ==
  { <<"p", "r", "o", "j", "e", "c", "t", "s">>,
    <<"p", "e", "r", "s", "o", "n", "a", "l", " ", "p", "r", "o", "j", "e", "c", "t", "s">> }

\* any(keyword in lower_line for keyword in keywords)
AnyKeyword(lower_line, keywords) == \E kw \in keywords : Contains(lower_line, kw)

\* the sections whose content lines are grouped into Items
ItemSections == {"experience", "education", "projects"}

\* the sections a header line switches to
HeaderSections == {"summary", "experience", "education", "skills", "projects"}

\* Classify with the skills test moved before the summary test
ClassifySkillsFirst(line) ==
  LET lower_line == Lower(line)
  IN  IF AnyKeyword(lower_line, ContactKeywords) THEN "contact"
      ELSE IF AnyKeyword(lower_line, SkillsKeywords) THEN "skills"
      ELSE IF AnyKeyword(lower_line, SummaryKeywords) THEN "summary"
      ELSE IF AnyKeyword(lower_line, ExperienceKeywords) THEN "experience"
      ELSE IF AnyKeyword(lower_line, EducationKeywords) THEN "education"
      ELSE IF AnyKeyword(lower_line, ProjectsKeywords) THEN "projects"
      ELSE "content"

\* the branch of the if/elif chain a stripped, non-empty line takes
Classify(line) ==
  LET lower_line == Lower(line)
  IN  IF AnyKeyword(lower_line, ContactKeywords) THEN "contact"
      ELSE IF AnyKeyword(lower_line, SummaryKeywords) THEN "summary"
      ELSE IF AnyKeyword(lower_line, ExperienceKeywords) THEN "experience"
      ELSE IF AnyKeyword(lower_line, EducationKeywords) THEN "education"
      ELSE IF AnyKeyword(lower_line, SkillsKeywords) THEN "skills"
      ELSE IF AnyKeyword(lower_line, ProjectsKeywords) THEN "projects"
      ELSE "content"

\* line[0].isupper() or re.match(r'^\d', line)
IsItemStart(line) ==
  line # <<>> /\ (IsUpper(line[1]) \/ line[1] \in Digits)

(***************************************************************************)
(* The texts a user can paste: a first line of FirstLinePool and up to     *)
(* MaxBodyLines entries of LinePool, joined with line breaks.  A blank     *)
(* first line makes the line after it the first line of the stripped text. *)
(* The last entry of LinePool is a line followed by a whitespace-only      *)
(* line, so that a blank line can stand between two lines of one section.  *)
(***************************************************************************)
FirstLinePool ==
  { <<" ">>,
    <<" ", "J", "o", " ">>,
    <<"S", "k", "i", "l", "l", "s", "@", "x">> }

LinePool ==
  { <<" ">>,
    <<"@", "x">>,
    <<"E", "x", "p", "e", "r", "i", "e", "n", "c", "e", "@", "y">>,
    <<"S", "u", "m", "m", "a", "r", "y", " ", "S", "k", "i", "l", "l", "s">>,
    <<"E", "x", "p", "e", "r", "i", "e", "n", "c", "e", " ", "P", "r", "o", "j", "e", "c", "t", "s">>,
    <<"E", "d", "u", "c", "a", "t", "i", "o", "n">>,
    <<"S", "k", "i", "l", "l", "s">>,
    <<"P", "r", "o", "j", "e", "c", "t", "s">>,
    <<" ", "P", "y", ",", " ", "G", "o", " ">>,
    <<"-", " ", "s", "q", "l">>,
    <<"9", " ", "y", "r", "\n", "\t">> }

Texts ==
  { Join(NewLine, <<first>> \o body) :
      first \in FirstLinePool,
      body \in UNION { [1..n -> LinePool] : n \in 0..MaxBodyLines } }

(***************************************************************************)
(* State.                                                                  *)
(***************************************************************************)
VARIABLES
  resume_text,      \* the content of the text area
  pc,               \* the position of the Generate handler
  lines,            \* parse_resume_text: text.strip().split('\n')
  idx,              \* parse_resume_text: the loop's position in lines (from 1)
  sections,         \* parse_resume_text: the document being filled
  current_section,  \* parse_resume_text: "None" until a section is entered
  current_item,     \* parse_resume_text: the lines of the Item in progress
  story,            \* create_resume_pdf: the blocks handed to doc.build
  notice,           \* the notice the page shows: "none", "success", "error"
  download          \* whether the download button is offered

vars ==
  <<resume_text, pc, lines, idx, sections, current_section, current_item,
    story, notice, download>>

parser == <<lines, idx, sections, current_section, current_item>>

EmptySections ==
  [ name |-> <<>>, contact |-> <<>>, summary |-> <<>>, experience |-> <<>>,
    education |-> <<>>, skills |-> <<>>, projects |-> <<>> ]

Idle ==
  /\ pc = "idle"
  /\ lines = <<>>
  /\ idx = 0
  /\ sections = EmptySections
  /\ current_section = "None"
  /\ current_item = <<>>
  /\ story = <<>>
  /\ notice = "none"
  /\ download = FALSE

Init ==
  /\ resume_text \in Texts
  /\ Idle

(***************************************************************************)
(* The Generate button handler, blank text.                                *)
(***************************************************************************)
ShowError ==
  /\ pc = "idle"
  /\ Strip(resume_text) = <<>>
  /\ pc' = "error"
  /\ notice' = "error"
  /\ UNCHANGED <<resume_text, parser, story, download>>

(***************************************************************************)
(* parse_resume_text.                                                      *)
(***************************************************************************)
\* ParseBegin without the handler's test that the text is not blank
ParseBeginUnchecked ==
  /\ pc = "idle"
  /\ LET ls == Split(Strip(resume_text), "\n")
     IN  /\ lines' = ls
         /\ sections' = [EmptySections EXCEPT !.name = Strip(ls[1])]
  /\ current_section' = "None"
  /\ current_item' = <<>>
  /\ idx' = 2
  /\ pc' = "loop"
  /\ UNCHANGED <<resume_text, story, notice, download>>

\* ParseBegin with the loop starting at the first line instead of the second
ParseBeginClassifyFirst ==
  /\ pc = "idle"
  /\ Strip(resume_text) # <<>>
  /\ LET ls == Split(Strip(resume_text), "\n")
     IN  /\ lines' = ls
         /\ sections' = [EmptySections EXCEPT !.name = Strip(ls[1])]
  /\ current_section' = "None"
  /\ current_item' = <<>>
  /\ idx' = 1
  /\ pc' = "loop"
  /\ UNCHANGED <<resume_text, story, notice, download>>

\* the handler calls parse_resume_text, which runs up to its loop
ParseBegin ==
  /\ pc = "idle"
  /\ Strip(resume_text) # <<>>
  /\ LET ls == Split(Strip(resume_text), "\n")
     IN  /\ lines' = ls
         /\ sections' = [EmptySections EXCEPT !.name = Strip(ls[1])]
  /\ current_section' = "None"
  /\ current_item' = <<>>
  /\ idx' = 2
  /\ pc' = "loop"
  /\ UNCHANGED <<resume_text, story, notice, download>>

\* the loop has a line to read
InLoop == pc = "loop" /\ idx <= Len(lines)

\* line = line.strip() of the line the loop reads
Line == Strip(lines[idx])

\* NextLine with the loop passing over the line after the one it read
NextLineSkipping ==
  /\ idx' = idx + 2
  /\ UNCHANGED <<resume_text, pc, lines, story, notice, download>>

\* what every iteration of the loop does and leaves alone
NextLine ==
  /\ idx' = idx + 1
  /\ UNCHANGED <<resume_text, pc, lines, story, notice, download>>

\* SkipBlank with a blank line closing the Item in progress
SkipBlankFlush ==
  /\ InLoop
  /\ Line = <<>>
  /\ NextLine
  /\ IF current_item # <<>> /\ current_section \in ItemSections
       THEN /\ sections' = [sections EXCEPT
                              ![current_section] = Append(@, Join(NewLine, current_item))]
            /\ current_item' = <<>>
       ELSE UNCHANGED <<sections, current_item>>
  /\ UNCHANGED current_section

\* if not line: continue
SkipBlank ==
  /\ InLoop
  /\ Line = <<>>
  /\ NextLine
  /\ UNCHANGED <<sections, current_section, current_item>>

\* a line with a contact keyword
ContactLine ==
  /\ InLoop
  /\ Line # <<>>
  /\ Classify(Line) = "contact"
  /\ IF current_section = "contact"
       THEN /\ sections' = [sections EXCEPT !.contact = @ \o <<" ", "|", " ">> \o Line]
            /\ UNCHANGED current_section
       ELSE /\ sections' = [sections EXCEPT !.contact = Line]
            /\ current_section' = "contact"
  /\ NextLine
  /\ UNCHANGED current_item

\* HeaderLine with the header kept as the first line of the next Item
HeaderLineKept ==
  /\ InLoop
  /\ Line # <<>>
  /\ LET class == Classify(Line)
     IN  class \in HeaderSections /\ current_section' = class
  /\ current_item' = Append(current_item, Line)
  /\ NextLine
  /\ UNCHANGED sections

\* a line with a keyword of summary, experience, education, skills or projects
HeaderLine ==
  /\ InLoop
  /\ Line # <<>>
  /\ LET class == Classify(Line)
     IN  class \in HeaderSections /\ current_section' = class
  /\ NextLine
  /\ UNCHANGED <<sections, current_item>>

\* ContentSummary with the line appended without the space before it
ContentSummaryUnspaced ==
  /\ InLoop
  /\ Line # <<>>
  /\ current_section = "summary"
  /\ Classify(Line) = "content"
  /\ sections' = [sections EXCEPT !.summary = @ \o Line]
  /\ NextLine
  /\ UNCHANGED <<current_section, current_item>>

\* a line without keyword, read under summary
ContentSummary ==
  /\ InLoop
  /\ Line # <<>>
  /\ current_section = "summary"
  /\ Classify(Line) = "content"
  /\ sections' = [sections EXCEPT !.summary = @ \o <<" ">> \o Line]
  /\ NextLine
  /\ UNCHANGED <<current_section, current_item>>

\* ContentItem with every line closing the Item in progress
ContentItemEachLine ==
  /\ InLoop
  /\ Line # <<>>
  /\ current_section \in ItemSections
  /\ Classify(Line) = "content"
  /\ IF current_item # <<>>
       THEN /\ sections' = [sections EXCEPT
                              ![current_section] = Append(@, Join(NewLine, current_item))]
            /\ current_item' = <<Line>>
       ELSE /\ current_item' = Append(current_item, Line)
            /\ UNCHANGED sections
  /\ NextLine
  /\ UNCHANGED current_section

\* ContentItem with no line closing the Item in progress
ContentItemNeverClosed ==
  /\ InLoop
  /\ Line # <<>>
  /\ current_section \in ItemSections
  /\ Classify(Line) = "content"
  /\ current_item' = Append(current_item, Line)
  /\ NextLine
  /\ UNCHANGED <<sections, current_section>>

\* a line without keyword, read under experience, education or projects
ContentItem ==
  /\ InLoop
  /\ Line # <<>>
  /\ current_section \in ItemSections
  /\ Classify(Line) = "content"
  /\ IF IsItemStart(Line) /\ current_item # <<>>
       THEN /\ sections' = [sections EXCEPT
                              ![current_section] = Append(@, Join(NewLine, current_item))]
            /\ current_item' = <<Line>>
       ELSE /\ current_item' = Append(current_item, Line)
            /\ UNCHANGED sections
  /\ NextLine
  /\ UNCHANGED current_section

\* ContentSkills with the line split on its commas
ContentSkillsSplit ==
  /\ InLoop
  /\ Line # <<>>
  /\ current_section = "skills"
  /\ Classify(Line) = "content"
  /\ sections' = [sections EXCEPT !.skills = @ \o Split(Line, ",")]
  /\ NextLine
  /\ UNCHANGED <<current_section, current_item>>

\* a line without keyword, read under skills
ContentSkills ==
  /\ InLoop
  /\ Line # <<>>
  /\ current_section = "skills"
  /\ Classify(Line) = "content"
  /\ sections' = [sections EXCEPT !.skills = Append(@, Line)]
  /\ NextLine
  /\ UNCHANGED <<current_section, current_item>>

\* ContentDropped with the line appended to contact when under contact and
\* buffered otherwise
ContentDroppedKept ==
  /\ InLoop
  /\ Line # <<>>
  /\ current_section \in {"None", "contact"}
  /\ Classify(Line) = "content"
  /\ IF current_section = "contact"
       THEN /\ sections' = [sections EXCEPT !.contact = @ \o <<" ", "|", " ">> \o Line]
            /\ UNCHANGED current_item
       ELSE /\ current_item' = Append(current_item, Line)
            /\ UNCHANGED sections
  /\ NextLine
  /\ UNCHANGED current_section

\* a line without keyword, read under contact or before any section: no
\* branch of the chain takes it
ContentDropped ==
  /\ InLoop
  /\ Line # <<>>
  /\ current_section \in {"None", "contact"}
  /\ Classify(Line) = "content"
  /\ NextLine
  /\ UNCHANGED <<sections, current_section, current_item>>

\* AddLastItem with the buffer pushed whether or not it holds a line
AddLastItemAlways ==
  /\ pc = "loop"
  /\ idx > Len(lines)
  /\ IF current_section \in ItemSections
       THEN sections' = [sections EXCEPT
                           ![current_section] = Append(@, Join(NewLine, current_item))]
       ELSE UNCHANGED sections
  /\ pc' = "parsed"
  /\ UNCHANGED <<resume_text, lines, idx, current_section, current_item,
                 story, notice, download>>

\* after the loop: the last item, and the return
AddLastItem ==
  /\ pc = "loop"
  /\ idx > Len(lines)
  /\ IF current_item # <<>> /\ current_section \in ItemSections
       THEN sections' = [sections EXCEPT
                           ![current_section] = Append(@, Join(NewLine, current_item))]
       ELSE UNCHANGED sections
  /\ pc' = "parsed"
  /\ UNCHANGED <<resume_text, lines, idx, current_section, current_item,
                 story, notice, download>>

(***************************************************************************)
(* create_resume_pdf: the story handed to the layout library.              *)
(***************************************************************************)
\* Paragraph(text, style)
Paragraph(text, style) == [flowable |-> "Paragraph", text |-> text, style |-> style]

\* Spacer(1, 6)
Spacer == [flowable |-> "Spacer", text |-> <<>>, style |-> "none"]

SummaryLabel ==
  <<"<", "b", ">", "P", "R", "O", "F", "E", "S", "S", "I", "O", "N", "A", "L", " ",
    "S", "U", "M", "M", "A", "R", "Y", "<", "/", "b", ">">>

ExperienceLabel ==
  <<"<", "b", ">", "W", "O", "R", "K", " ", "E", "X", "P", "E", "R", "I", "E", "N",
    "C", "E", "<", "/", "b", ">">>

EducationLabel ==
  <<"<", "b", ">", "E", "D", "U", "C", "A", "T", "I", "O", "N", "<", "/", "b", ">">>

SkillsLabel ==
  <<"<", "b", ">", "S", "K", "I", "L", "L", "S", "<", "/", "b", ">">>

ProjectsLabel ==
  <<"<", "b", ">", "P", "R", "O", "J", "E", "C", "T", "S", "<", "/", "b", ">">>

LineBreak == <<"<", "b", "r", "/", ">">>

\* if sections['name']: the title
NameBlocks(doc) ==
  IF doc.name # <<>> THEN <<Paragraph(doc.name, "title_style")>> ELSE <<>>

\* if sections['contact']: the contact line
ContactBlocks(doc) ==
  IF doc.contact # <<>> THEN <<Paragraph(doc.contact, "contact_style")>> ELSE <<>>

\* if sections['summary']: the label and the stripped summary
SummaryBlocks(doc) ==
  IF doc.summary # <<>>
    THEN <<Paragraph(SummaryLabel, "heading_style"),
           Paragraph(Strip(doc.summary), "body_style")>>
    ELSE <<>>

\* the loop over the Items of a section: a paragraph and a spacer for each
ItemBlocks(items) ==
  [k \in 1..(2 * Len(items)) |->
     IF k % 2 = 1
       THEN Paragraph(Replace(items[(k + 1) \div 2], "\n", LineBreak), "body_style")
       ELSE Spacer]

\* if sections[...]: the label and the Items of experience, education or projects
SectionBlocks(label, items) ==
  IF items # <<>>
    THEN <<Paragraph(label, "heading_style")>> \o ItemBlocks(items)
    ELSE <<>>

\* a skills entry as it is rendered: s.strip(bullet and '-').strip()
SkillText(s) == Strip(StripChars(s, {Bullet, "-"}))

\* ' (bullet) '.join of the rendered entries of the s in sections['skills']
\* with s.strip() non-empty
SkillsText(skills) ==
  LET kept == SelectSeq(skills, LAMBDA s : Strip(s) # <<>>)
  IN  Join(<<" ", Bullet, " ">>, [k \in 1..Len(kept) |-> SkillText(kept[k])])

\* if sections['skills']: the label and one paragraph
SkillsBlocks(doc) ==
  IF doc.skills # <<>>
    THEN <<Paragraph(SkillsLabel, "heading_style"),
           Paragraph(SkillsText(doc.skills), "body_style")>>
    ELSE <<>>

\* Story with the skills blocks appended before the education blocks
StorySkillsBeforeEducation(doc) ==
  NameBlocks(doc) \o ContactBlocks(doc) \o SummaryBlocks(doc)
    \o SectionBlocks(ExperienceLabel, doc.experience)
    \o SkillsBlocks(doc)
    \o SectionBlocks(EducationLabel, doc.education)
    \o SectionBlocks(ProjectsLabel, doc.projects)

\* the story create_resume_pdf builds, in the order of its appends
Story(doc) ==
  NameBlocks(doc) \o ContactBlocks(doc) \o SummaryBlocks(doc)
    \o SectionBlocks(ExperienceLabel, doc.experience)
    \o SectionBlocks(EducationLabel, doc.education)
    \o SkillsBlocks(doc)
    \o SectionBlocks(ProjectsLabel, doc.projects)

\* the handler calls create_resume_pdf on the parsed sections
CreateResumePdf ==
  /\ pc = "parsed"
  /\ story' = Story(sections)
  /\ pc' = "rendered"
  /\ UNCHANGED <<resume_text, parser, notice, download>>

\* the handler shows the success notice and the download button
OfferDownload ==
  /\ pc = "rendered"
  /\ notice' = "success"
  /\ download' = TRUE
  /\ pc' = "done"
  /\ UNCHANGED <<resume_text, parser, story>>

Next ==
  \/ ShowError
  \/ ParseBegin
  \/ SkipBlank
  \/ ContactLine
  \/ HeaderLine
  \/ ContentSummary
  \/ ContentItem
  \/ ContentSkills
  \/ ContentDropped
  \/ AddLastItem
  \/ CreateResumePdf
  \/ OfferDownload

Spec == Init /\ [][Next]_vars

(***************************************************************************)
(* create_resume_pdf on its own: the documents it can be handed.           *)
(***************************************************************************)
SeqsUpTo(S, n) == UNION { [1..m -> S] : m \in 0..n }

ItemPool ==
  { <<"A", "c", "m", "e">>,
    <<"A", "c", "m", "e", "\n", "-", " ", "x">> }

SkillPool ==
  { <<"P", "y", ",", " ", "G", "o">>,
    <<"-", " ", "s", "q", "l">>,
    <<Bullet, " ", "a", "w", "s", "-">> }

Documents ==
  [ name       : {<<>>, <<"J", "o">>},
    contact    : {<<>>, <<"@", "x">>},
    summary    : {<<>>, <<" ", "h", "i">>},
    experience : SeqsUpTo(ItemPool, MaxItems),
    education  : SeqsUpTo({<<"B", "S", "c">>}, MaxItems),
    skills     : SeqsUpTo(SkillPool, MaxItems),
    projects   : SeqsUpTo({<<"9", "\n", "p">>}, MaxItems) ]

InitRender ==
  /\ resume_text = <<>>
  /\ pc = "parsed"
  /\ lines = <<>>
  /\ idx = 0
  /\ sections \in Documents
  /\ current_section = "None"
  /\ current_item = <<>>
  /\ story = <<>>
  /\ notice = "none"
  /\ download = FALSE

NextRender == CreateResumePdf

SpecRender == InitRender /\ [][NextRender]_vars

(***************************************************************************)
(* The specification's words about a line, stated from the keyword table.  *)
(***************************************************************************)
\* the categories in the specification's priority order
CategoryOrder ==
  <<"contact", "summary", "experience", "education", "skills", "projects">>

KeywordsOf(category) ==
  CASE category = "contact" -> ContactKeywords
    [] category = "summary" -> SummaryKeywords
    [] category = "experience" -> ExperienceKeywords
    [] category = "education" -> EducationKeywords
    [] category = "skills" -> SkillsKeywords
    [] category = "projects" -> ProjectsKeywords

\* kw, a lower-case keyword, occurs in line whatever the case of line's letters
Occurs(line, kw) ==
  \E k \in 0..Len(line) :
     /\ k + Len(kw) <= Len(line)
     /\ \A j \in 1..Len(kw) : LowerChar(line[k + j]) = kw[j]

\* some keyword of the category occurs in line
Matches(line, category) == \E kw \in KeywordsOf(category) : Occurs(line, kw)

\* the first category, in priority order, a keyword of which occurs in line
ExpectedClass(line) ==
  LET hits == {n \in 1..Len(CategoryOrder) : Matches(line, CategoryOrder[n])}
  IN  IF hits = {}
        THEN "content"
        ELSE CategoryOrder[CHOOSE n \in hits : \A m \in hits : n <= m]

\* the loop is about to read a non-blank line
Reading == InLoop /\ Line # <<>>

\* the loop is about to read a non-blank line of the given class
ReadingA(class) == Reading /\ ExpectedClass(Line) = class

\* the loop has read a line: the line, stripped
LastRead == Strip(lines[idx - 1])

\* the loop has read at least one line after the first
HasRead == pc = "loop" /\ idx > 2

\* parse_resume_text has returned
Returned == pc \in {"parsed", "rendered", "done"}

\* the stripped non-blank lines after the first, in input order
BodyLines ==
  LET stripped == [k \in 1..(Len(lines) - 1) |-> Strip(lines[k + 1])]
  IN  SelectSeq(stripped, LAMBDA l : l # <<>>)

(***************************************************************************)
(* C1: right after any line that changes current_section the item buffer   *)
(* is empty, and the lines it held have been pushed, joined, as the last   *)
(* Item of the section that was current before the change.                 *)
(***************************************************************************)
C1_ClosedOnSectionChange ==
  [][ (pc = "loop" /\ pc' = "loop" /\ current_section' # current_section)
        => /\ current_item' = <<>>
           /\ current_item # <<>>
                => /\ current_section \in ItemSections
                   /\ sections'[current_section]
                        = Append(sections[current_section], Join(NewLine, current_item))
    ]_vars

(***************************************************************************)
(* C2: the returned contact is every contact line after the first line, in *)
(* input order, joined with " | ", whatever lines stand between them.      *)
(***************************************************************************)
C2_ContactAccumulates ==
  Returned =>
    sections.contact
      = Join(<<" ", "|", " ">>,
             SelectSeq(BodyLines, LAMBDA l : ExpectedClass(l) = "contact"))

(***************************************************************************)
(* C3: the name is the trimmed first non-blank line of the pasted text,    *)
(* from the moment parsing starts and whatever is read later; the first    *)
(* line is not classified, so when the loop starts contact is empty and no *)
(* section is current, whatever keywords the first line holds.             *)
(***************************************************************************)
\* the lines of the pasted text as pasted, before any stripping
RawLines == Split(resume_text, "\n")

\* the first pasted line that holds a character other than whitespace
FirstNonBlankLine ==
  LET nonblank == {k \in 1..Len(RawLines) :
                     \E j \in 1..Len(RawLines[k]) : RawLines[k][j] \notin Whitespace}
  IN  RawLines[CHOOSE k \in nonblank : \A m \in nonblank : k <= m]

C3_NameIsFirstLine ==
  /\ pc \in {"loop", "parsed", "rendered", "done"}
       => sections.name = Strip(FirstNonBlankLine)
  /\ (pc = "loop" /\ idx = 2)
       => /\ sections = [EmptySections EXCEPT !.name = Strip(FirstNonBlankLine)]
          /\ current_section = "None"
          /\ current_item = <<>>

\* a text with a blank first line whose name holds a contact and a header
\* keyword has been parsed, and neither contact nor a section came of it
C3_Witness ==
  /\ pc = "parsed"
  /\ resume_text[1] \in Whitespace /\ resume_text[2] = "\n"
  /\ Len(lines) > 1
  /\ Matches(sections.name, "contact")
  /\ \E category \in HeaderSections : Matches(sections.name, category)
  /\ sections.contact = <<>>
  /\ current_section = "None"

(***************************************************************************)
(* C4: the content lines read under the first header of an Item section,   *)
(* up to the next header or contact line or the end of the text, a run     *)
(* that starts with an empty item buffer, give that section exactly the    *)
(* run cut before each item-start line, each piece joined with a newline,  *)
(* as the first Items of its sequence, in source order.                    *)
(***************************************************************************)
\* the place in lines of the first header of an Item section, 0 without one
FirstItemHeader ==
  LET headers == {k \in 2..Len(lines) :
                    /\ Strip(lines[k]) # <<>>
                    /\ ExpectedClass(Strip(lines[k])) \in ItemSections}
  IN  IF headers = {} THEN 0 ELSE CHOOSE k \in headers : \A m \in headers : k <= m

\* the place in lines of the last line of the run that follows that header
FirstRunEnd ==
  LET stops == {k \in (FirstItemHeader + 1)..Len(lines) :
                  /\ Strip(lines[k]) # <<>>
                  /\ ExpectedClass(Strip(lines[k])) # "content"}
  IN  IF stops = {} THEN Len(lines) ELSE (CHOOSE k \in stops : \A m \in stops : k <= m) - 1

\* the content lines of that run, stripped, in order
FirstRun ==
  SelectSeq([k \in 1..(FirstRunEnd - FirstItemHeader) |-> Strip(lines[FirstItemHeader + k])],
            LAMBDA l : l # <<>>)

\* a run cut before each of its item-start lines, each piece joined
CutBeforeItemStarts(run) ==
  LET starts == {1} \cup {k \in 1..Len(run) : IsUpper(run[k][1]) \/ run[k][1] \in Digits}
      Start(n) == CHOOSE k \in starts : Cardinality({j \in starts : j < k}) = n - 1
      End(n) == IF n = Cardinality(starts) THEN Len(run) ELSE Start(n + 1) - 1
  IN  IF run = <<>>
        THEN <<>>
        ELSE [n \in 1..Cardinality(starts) |-> Join(NewLine, SubSeq(run, Start(n), End(n)))]

C4_RunCutIntoItems ==
  (Returned /\ FirstItemHeader # 0) =>
    LET section == ExpectedClass(Strip(lines[FirstItemHeader]))
        items == CutBeforeItemStarts(FirstRun)
    IN  /\ Len(sections[section]) >= Len(items)
        /\ SubSeq(sections[section], 1, Len(items)) = items

(***************************************************************************)
(* C5: a non-blank line after the first is handled as the first category,  *)
(* in the order contact, summary, experience, education, skills, projects, *)
(* a keyword of which occurs in it whatever the case, and as content when  *)
(* there is none: a contact line makes contact the current section and     *)
(* ends contact, a header makes its category the current section and       *)
(* leaves contact alone, a content line leaves both alone.                 *)
(***************************************************************************)
C5_FirstMatchWins ==
  [][ Reading =>
        LET class == ExpectedClass(Line)
        IN  /\ class = "contact"
              => /\ current_section' = "contact"
                 /\ Len(sections'.contact) >= Len(Line)
                 /\ SubSeq(sections'.contact,
                           Len(sections'.contact) - Len(Line) + 1,
                           Len(sections'.contact)) = Line
            /\ class \in HeaderSections
              => /\ current_section' = class
                 /\ sections'.contact = sections.contact
            /\ class = "content"
              => /\ current_section' = current_section
                 /\ sections'.contact = sections.contact
    ]_vars

\* a summary-and-skills line, an experience-and-contact line and an
\* experience-and-projects line have been read, in that order
C5_Witness ==
  /\ pc = "loop" /\ idx = 5
  /\ Matches(Strip(lines[2]), "summary") /\ Matches(Strip(lines[2]), "skills")
  /\ Matches(Strip(lines[3]), "contact") /\ Matches(Strip(lines[3]), "experience")
  /\ Matches(Strip(lines[4]), "experience") /\ Matches(Strip(lines[4]), "projects")
  /\ ~Matches(Strip(lines[4]), "contact")
  /\ sections.contact = Strip(lines[3])
  /\ current_section = "experience"

(***************************************************************************)
(* C6: a header line only sets current_section to its category: the        *)
(* document and the item buffer are as they were, so the header's text is  *)
(* stored nowhere.                                                         *)
(***************************************************************************)
C6_HeaderIsDelimiter ==
  [][ (Reading /\ ExpectedClass(Line) \in HeaderSections)
        => /\ current_section' = ExpectedClass(Line)
           /\ sections' = sections
           /\ current_item' = current_item
    ]_vars

\* a header has been read while the item buffer held a line
C6_Witness ==
  /\ HasRead
  /\ ExpectedClass(LastRead) \in HeaderSections
  /\ current_section = ExpectedClass(LastRead)
  /\ current_item # <<>>

(***************************************************************************)
(* C7: a content line read under skills is appended, stripped and whole,   *)
(* as one new last entry of skills, and changes nothing else; no other     *)
(* step changes skills.                                                    *)
(***************************************************************************)
C7_SkillsVerbatim ==
  [][ IF ReadingA("content") /\ current_section = "skills"
        THEN /\ sections' = [sections EXCEPT !.skills = Append(@, Line)]
             /\ current_item' = current_item
             /\ current_section' = current_section
        ELSE sections'.skills = sections.skills
    ]_vars

\* a line with a comma and surrounding blanks and a line with a dash have
\* been stored under skills, in that order
C7_Witness ==
  /\ pc = "parsed"
  /\ sections.skills = << <<"P", "y", ",", " ", "G", "o">>, <<"-", " ", "s", "q", "l">> >>
  /\ Len(lines[3]) > Len(sections.skills[1])

(***************************************************************************)
(* C8: a blank line changes nothing but the loop's position: not the       *)
(* document, not current_section, not the item buffer.                     *)
(***************************************************************************)
C8_BlankSkipped ==
  [][ (InLoop /\ \A j \in 1..Len(lines[idx]) : lines[idx][j] \in Whitespace)
        => /\ sections' = sections
           /\ current_section' = current_section
           /\ current_item' = current_item
           /\ idx' = idx + 1
    ]_vars

\* a blank line has been read while the item buffer held a line, and a
\* line follows it
C8_Witness ==
  /\ HasRead
  /\ LastRead = <<>>
  /\ current_item # <<>>
  /\ current_section \in ItemSections
  /\ idx <= Len(lines)

(***************************************************************************)
(* C9: a content line read under contact, or before any section, changes   *)
(* nothing but the loop's position.                                        *)
(***************************************************************************)
C9_ContentDropped ==
  [][ (ReadingA("content") /\ current_section \in {"None", "contact"})
        => /\ sections' = sections
           /\ current_section' = current_section
           /\ current_item' = current_item
    ]_vars

\* a content line has been read before any section and another one under
\* contact, and only the name and the contact line are stored
C9_Witness ==
  /\ pc = "loop" /\ idx = 5
  /\ ExpectedClass(Strip(lines[2])) = "content"
  /\ ExpectedClass(Strip(lines[3])) = "contact"
  /\ ExpectedClass(Strip(lines[4])) = "content"
  /\ current_section = "contact"
  /\ sections = [EmptySections EXCEPT !.name = Strip(lines[1]),
                                      !.contact = Strip(lines[3])]
  /\ current_item = <<>>

(***************************************************************************)
(* C10: the story holds, in the order name, contact, summary, experience,  *)
(* education, skills, projects, the blocks of the sections whose data is   *)
(* not empty and nothing else: one title, one contact line, a label and a  *)
(* body for summary and for skills, and for experience, education and      *)
(* projects a label and then, for each Item in sequence order, one body    *)
(* block followed by one spacer.                                           *)
(***************************************************************************)
\* the number of blocks of a field that gives one block
OneBlock(field) == IF field # <<>> THEN 1 ELSE 0

\* the number of blocks of a field that gives a label and a body
TwoBlocks(field) == IF field # <<>> THEN 2 ELSE 0

\* the number of blocks of a sequence of Items
ItemsBlocks(items) == IF items # <<>> THEN 1 + 2 * Len(items) ELSE 0

\* the place in the story before the first block of each section
ContactAt == OneBlock(sections.name)
SummaryAt == ContactAt + OneBlock(sections.contact)
ExperienceAt == SummaryAt + TwoBlocks(sections.summary)
EducationAt == ExperienceAt + ItemsBlocks(sections.experience)
SkillsAt == EducationAt + ItemsBlocks(sections.education)
ProjectsAt == SkillsAt + TwoBlocks(sections.skills)
StoryEnd == ProjectsAt + ItemsBlocks(sections.projects)

\* the blocks after place at are a label and, for each Item in order, its
\* body (line breaks as markup) and a spacer
ItemsRenderedAt(at, label, items) ==
  items # <<>> =>
    /\ story[at + 1] = Paragraph(label, "heading_style")
    /\ \A k \in 1..Len(items) :
         /\ story[at + 2 * k].flowable = "Paragraph"
         /\ story[at + 2 * k].style = "body_style"
         /\ story[at + 2 * k].text = Replace(items[k], "\n", LineBreak)
         /\ story[at + 2 * k + 1].flowable = "Spacer"

C10_RenderOrder ==
  pc = "rendered" =>
    /\ Len(story) = StoryEnd
    /\ sections.name # <<>> => story[1] = Paragraph(sections.name, "title_style")
    /\ sections.contact # <<>>
         => story[ContactAt + 1] = Paragraph(sections.contact, "contact_style")
    /\ sections.summary # <<>>
         => /\ story[SummaryAt + 1] = Paragraph(SummaryLabel, "heading_style")
            /\ story[SummaryAt + 2].flowable = "Paragraph"
            /\ story[SummaryAt + 2].style = "body_style"
    /\ ItemsRenderedAt(ExperienceAt, ExperienceLabel, sections.experience)
    /\ ItemsRenderedAt(EducationAt, EducationLabel, sections.education)
    /\ sections.skills # <<>>
         => /\ story[SkillsAt + 1] = Paragraph(SkillsLabel, "heading_style")
            /\ story[SkillsAt + 2].flowable = "Paragraph"
            /\ story[SkillsAt + 2].style = "body_style"
    /\ ItemsRenderedAt(ProjectsAt, ProjectsLabel, sections.projects)

\* a document without name, contact and summary, with two experience
\* Items, no education, skills and projects, has been rendered
C10_Witness ==
  /\ pc = "rendered"
  /\ sections.name = <<>> /\ sections.contact = <<>> /\ sections.summary = <<>>
  /\ Len(sections.experience) = 2
  /\ sections.experience[1] # sections.experience[2]
  /\ sections.education = <<>>
  /\ sections.skills # <<>>
  /\ sections.projects # <<>>
  /\ Len(story) = 10
  /\ story[1].text = ExperienceLabel
  /\ story[6].text = SkillsLabel
  /\ story[8].text = ProjectsLabel

(***************************************************************************)
(* C11: the skills paragraph is the skills entries, in order, each without *)
(* its leading bullets and dashes and then trimmed of surrounding          *)
(* whitespace, its interior and trailing characters as they were, joined   *)
(* with a bullet between two spaces.                                       *)
(***************************************************************************)
\* s without its leading characters of chars
WithoutLeading(s, chars) ==
  LET keep == {k \in 1..Len(s) : s[k] \notin chars}
  IN  IF keep = {}
        THEN <<>>
        ELSE SubSeq(s, CHOOSE a \in keep : \A b \in keep : a <= b, Len(s))

C11_SkillsParagraph ==
  (pc = "rendered" /\ sections.skills # <<>>) =>
    story[SkillsAt + 2].text
      = Join(<<" ", Bullet, " ">>,
             [k \in 1..Len(sections.skills) |->
                Strip(WithoutLeading(sections.skills[k], {Bullet, "-"}))])

(***************************************************************************)
(* C12: a Generate request on a blank text only shows the error: nothing   *)
(* is parsed, nothing rendered, no download offered.  On any other text it *)
(* parses, then renders, then offers the download, each once and in that   *)
(* order: the document changes only while parsing, the story only in the   *)
(* one rendering step after it, the download only after the rendering.     *)
(***************************************************************************)
\* the pasted text holds nothing but whitespace
BlankText == \A k \in 1..Len(resume_text) : resume_text[k] \in Whitespace

C12_GenerateSequence ==
  [][ /\ pc = "idle" /\ BlankText
        => /\ pc' = "error"
           /\ notice' = "error"
           /\ UNCHANGED <<lines, idx, sections, current_section, current_item,
                          story, download>>
      /\ pc = "idle" /\ ~BlankText => pc' = "loop"
      /\ pc = "loop" => pc' \in {"loop", "parsed"}
      /\ pc = "parsed" => pc' = "rendered"
      /\ pc = "rendered" => pc' = "done" /\ notice' = "success" /\ download'
      /\ pc \notin {"idle", "loop", "parsed", "rendered"} => UNCHANGED vars
      /\ sections' # sections => pc \in {"idle", "loop"}
      /\ story' # story => pc = "parsed"
      /\ download' # download => pc = "rendered"
      /\ notice' # notice => pc \in {"idle", "rendered"}
    ]_vars

\* the request on a text of several whitespace-only lines has ended with
\* the error and nothing else
C12_Witness ==
  /\ pc = "error"
  /\ notice = "error"
  /\ \E k \in 1..Len(resume_text) : resume_text[k] = "\n"
  /\ lines = <<>> /\ sections = EmptySections /\ story = <<>>
  /\ ~download

(***************************************************************************)
(* C13: parse_resume_text is total on a non-blank text: the text has at    *)
(* least one line, the loop starts at the second, every step of the loop   *)
(* reads the line at hand, whatever it is and whatever section is current, *)
(* and moves to the next, and the step past the last line is the return.   *)
(* The loop's position only grows and is bounded by the number of lines,   *)
(* so the parser returns; current_section is always unset or the name of   *)
(* a section, and an Item is only ever pushed to the current section when  *)
(* that is a sequence of Items, so no step can fail.                       *)
(***************************************************************************)
\* the loop moves from the line at hand to the next
ReadsOneLine == pc' = "loop" /\ idx' = idx + 1 /\ lines' = lines

\* the parser returns
Returns == pc' = "parsed" /\ idx' = idx /\ lines' = lines

C13_SegmentTotal ==
  [][ /\ (pc = "idle" /\ ~BlankText)
           => /\ pc' = "loop"
              /\ Len(lines') >= 1
              /\ idx' = 2
              /\ current_section' = "None"
      /\ pc = "loop"
           => /\ idx \in 2..(Len(lines) + 1)
              /\ IF idx <= Len(lines) THEN ReadsOneLine ELSE Returns
              /\ current_section' \in {"None", "contact"} \cup HeaderSections
              /\ \A section \in ItemSections :
                   sections'[section] # sections[section]
                     => section = current_section /\ current_item # <<>>
    ]_vars

\* the parser has returned from a text with a blank, a contact and a
\* content line after its first line
C13_Witness ==
  /\ pc = "parsed"
  /\ idx = Len(lines) + 1
  /\ Len(lines) >= 4
  /\ \E k \in 2..Len(lines) : Strip(lines[k]) = <<>>
  /\ \E k \in 2..Len(lines) : Strip(lines[k]) # <<>> /\ ExpectedClass(Strip(lines[k])) = "contact"
  /\ \E k \in 2..Len(lines) : Strip(lines[k]) # <<>> /\ ExpectedClass(Strip(lines[k])) = "content"

(***************************************************************************)
(* C14: at the end of the input a non-empty buffer under experience,       *)
(* education or projects is pushed, its lines joined with a line break, as *)
(* the last Item of the current section, and nothing else changes; with an *)
(* empty buffer, or under any other section, the return pushes nothing.    *)
(* No stored Item is the empty string.                                     *)
(***************************************************************************)
\* the step is the return of parse_resume_text
AtEndOfInput == pc = "loop" /\ pc' = "parsed"

\* the only change to the document is one more Item, last in the section
PushedLast(section, item) ==
  /\ Len(sections'[section]) = Len(sections[section]) + 1
  /\ sections'[section][Len(sections'[section])] = item
  /\ SubSeq(sections'[section], 1, Len(sections[section])) = sections[section]
  /\ \A other \in DOMAIN sections \ {section} : sections'[other] = sections[other]

C14_FinalFlush ==
  [][ /\ AtEndOfInput =>
           IF current_item # <<>> /\ current_section \in ItemSections
             THEN PushedLast(current_section, Join(NewLine, current_item))
             ELSE sections' = sections
      /\ \A section \in ItemSections : \A k \in 1..Len(sections'[section]) :
           sections'[section][k] # <<>>
    ]_vars

\* the parser has returned with a buffer of two lines pushed as the last
\* Item of the current section
C14_Witness ==
  /\ pc = "parsed"
  /\ current_section \in ItemSections
  /\ Len(current_item) >= 2
  /\ sections[current_section] # <<>>
  /\ sections[current_section][Len(sections[current_section])]
       = Join(NewLine, current_item)

(***************************************************************************)
(* C15: a content line whose first character is neither an upper-case      *)
(* letter nor a digit, read under experience, education or projects, is    *)
(* appended to the buffer and nothing is pushed, whether the buffer was    *)
(* empty or not.  Whatever is pushed to a section is the whole non-empty   *)
(* buffer, and the buffer only loses lines by being pushed, so such a line *)
(* read with an empty buffer is the first line of the next Item pushed.    *)
(***************************************************************************)
\* the item-start heuristic: first character an upper-case letter or a digit
FiresItemStart(line) ==
  /\ line # <<>>
  /\ line[1] \in {UpperChars[n] : n \in 1..Len(UpperChars)} \cup Digits

\* the step pushes the buffer to some section
Pushes ==
  \E section \in ItemSections : PushedLast(section, Join(NewLine, current_item))

C15_ContinuationLine ==
  [][ /\ (ReadingA("content") /\ current_section \in ItemSections
            /\ ~FiresItemStart(Line))
           => /\ current_item' = Append(current_item, Line)
              /\ sections' = sections
              /\ current_section' = current_section
      /\ \A section \in ItemSections :
           sections'[section] # sections[section]
             => /\ PushedLast(section, Join(NewLine, current_item))
                /\ current_item # <<>>
      /\ current_item # <<>>
           => \/ /\ Len(current_item') >= Len(current_item)
                 /\ SubSeq(current_item', 1, Len(current_item)) = current_item
              \/ Pushes /\ pc = "loop" /\ pc' = "loop"
    ]_vars

\* an Item has been pushed whose first line does not fire the heuristic and
\* was read with an empty buffer
C15_Witness ==
  \E section \in ItemSections : \E k \in 1..Len(sections[section]) :
     /\ sections[section][k] # <<>>
     /\ ~FiresItemStart(sections[section][k])

(***************************************************************************)
(* C16: a content line read under summary is appended to summary after one *)
(* space and changes nothing else; no other step changes summary.  The    *)
(* returned summary is the concatenation, in input order, of a space and   *)
(* the line over the content lines read under summary, whatever headers    *)
(* were read in between.                                                   *)
(***************************************************************************)
\* the section in force once lines 2..n of ls have been read: the class of
\* the last contact or header line among them
SectionAfter(ls, n) ==
  LET marks == {k \in 2..n : /\ Strip(ls[k]) # <<>>
                             /\ ExpectedClass(Strip(ls[k])) # "content"}
  IN  IF marks = {}
        THEN "None"
        ELSE ExpectedClass(Strip(ls[CHOOSE k \in marks : \A m \in marks : m <= k]))

\* line k of ls is a content line read under the given section
ContentUnder(ls, k, section) ==
  /\ Strip(ls[k]) # <<>>
  /\ ExpectedClass(Strip(ls[k])) = "content"
  /\ SectionAfter(ls, k - 1) = section

\* the content lines read under the section among lines 2..n of ls, stripped,
\* in input order
RECURSIVE ContentRead(_, _, _)
ContentRead(ls, n, section) ==
  IF n < 2
    THEN <<>>
    ELSE ContentRead(ls, n - 1, section)
           \o (IF ContentUnder(ls, n, section) THEN <<Strip(ls[n])>> ELSE <<>>)

\* each line after one space, concatenated
RECURSIVE Spaced(_)
Spaced(ls) == IF ls = <<>> THEN <<>> ELSE <<" ">> \o Head(ls) \o Spaced(Tail(ls))

C16_SummaryAccumulates ==
  [][ /\ (current_section = "summary" /\ ReadingA("content"))
           => /\ sections' = [sections EXCEPT !.summary = @ \o <<" ">> \o Line]
              /\ current_item' = current_item
              /\ current_section' = current_section
      /\ sections'.summary # sections.summary
           => current_section = "summary" /\ ReadingA("content")
      /\ (pc = "loop" /\ pc' = "parsed")
           => sections'.summary = Spaced(ContentRead(lines, Len(lines), "summary"))
    ]_vars

\* the parser has returned a summary of a line read under summary, the last
\* line of the text being a summary header read after it
C16_Witness ==
  /\ pc = "parsed"
  /\ sections.summary # <<>>
  /\ ExpectedClass(Strip(lines[Len(lines)])) = "summary"
  /\ sections.summary = Spaced(ContentRead(lines, Len(lines), "summary"))

(***************************************************************************)
(* C17: a line is stored in at most one place, and what has been stored    *)
(* stays where it is: every step of the parser leaves name as it is,       *)
(* extends contact, summary, skills and each sequence of Items at their    *)
(* end, extends the buffer or pushes it whole, and stores the line it      *)
(* reads in at most one of contact, summary, skills and the buffer.        *)
(***************************************************************************)
\* b is a with something appended, or a itself
Extends(a, b) == Len(a) <= Len(b) /\ SubSeq(b, 1, Len(a)) = a

\* the places a line can be stored in that the step changes
Targets ==
  {field \in {"contact", "summary", "skills"} : sections'[field] # sections[field]}
    \cup (IF current_item' # current_item THEN {"current_item"} ELSE {})

C17_StoredOnce ==
  [][ pc = "loop" =>
        /\ sections'.name = sections.name
        /\ \A field \in DOMAIN sections : Extends(sections[field], sections'[field])
        /\ Extends(current_item, current_item') \/ Pushes
        /\ Cardinality(Targets) <= 1
    ]_vars

(***************************************************************************)
(* C18: in the buffer, at every point, and in every stored Item, no line   *)
(* but the first has an upper-case letter or a digit as its first          *)
(* character; every stored Item has at least one line and no empty line.   *)
(***************************************************************************)
\* only the first of the lines may fire the item-start heuristic
OnlyFirstStarts(ls) == \A k \in 2..Len(ls) : ~FiresItemStart(ls[k])

C18_BufferInvariant ==
  /\ OnlyFirstStarts(current_item)
  /\ \A section \in ItemSections : \A k \in 1..Len(sections[section]) :
       LET item_lines == Split(sections[section][k], "\n")
       IN  /\ sections[section][k] # <<>>
           /\ \A j \in 1..Len(item_lines) : item_lines[j] # <<>>
           /\ OnlyFirstStarts(item_lines)

\* an Item of two lines is stored, its first line firing the heuristic, and
\* the buffer holds a line that fires it too
C18_Witness ==
  /\ current_item # <<>>
  /\ FiresItemStart(current_item[1])
  /\ \E section \in ItemSections : \E k \in 1..Len(sections[section]) :
       LET item_lines == Split(sections[section][k], "\n")
       IN  Len(item_lines) >= 2 /\ FiresItemStart(item_lines[1])

(***************************************************************************)
(* C19: in the returned document the lines of the Items of experience, of  *)
(* education and of projects are, in input order, exactly the content      *)
(* lines read while that section was current.                              *)
(***************************************************************************)
\* the lines of the Items, in order
RECURSIVE ItemLines(_)
ItemLines(items) ==
  IF items = <<>> THEN <<>> ELSE Split(Head(items), "\n") \o ItemLines(Tail(items))

C19_ItemLinesConserved ==
  pc = "parsed" =>
    \A section \in ItemSections :
       ItemLines(sections[section]) = ContentRead(lines, Len(lines), section)

=============================================================================
